---------------------------- MODULE Spec2Model ----------------------------
(***************************************************************************)
(* Model of bentoml/_internal/cloud/deployment.py: the Deployment client   *)
(* (create, create_from_file, list, get, _create_deployment) run by        *)
(* concurrent callers against one remote Yatai service.                     *)
(*                                                                         *)
(* Python values are modelled as TLA+ functions so that any two of them    *)
(* can be compared: None, str and attrs objects are records carrying a     *)
(* tag "t"; a dict is a function whose DOMAIN is the set of keys present.  *)
(* Every remote call of a handler is one step of the calling client, so    *)
(* that calls of different clients interleave.                             *)
(***************************************************************************)
EXTENDS Naturals, Sequences, FiniteSets, TLC

(***************************************************************************)
(* Bounds of the model.                                                    *)
(***************************************************************************)
\* the longest target list of a request file read by create_from_file
MaxTargets == 2
\* the number of runner names a caller may put in its runners_config mapping
NumRunners == 2

(***************************************************************************)
(* Python values.                                                          *)
(***************************************************************************)
None == [t |-> "None"]
Str(s) == [t |-> "str", v |-> s]
EmptyDict == [k \in {} |-> None]

\* truth value of a Python object in `if x:`: None and "" are false; an
\* attrs object (no __bool__/__len__) is true
Truthy(x) == x # None /\ x # Str("")

\* dict.get(k): None when the key is absent
Get(d, k) == IF k \in DOMAIN d THEN d[k] ELSE None

\* d[k] = v
Put(d, k, v) == [x \in DOMAIN d \cup {k} |-> IF x = k THEN v ELSE d[x]]

(***************************************************************************)
(* The environment: callers, names, the remote service's artifacts.        *)
(***************************************************************************)
Clients == {1, 2}
default_context_name == Str("default")
default_kube_namespace == Str("yatai-deployment")
Names == {Str("svc1"), Str("svc2")}
\* Tag values (name, version); Tag.from_taglike of a Tag is that Tag
Tags == {[name |-> Str("mymodel"), version |-> Str("v1")],
         [name |-> Str("mymodel"), version |-> Str("v2")]}
\* the artifacts the remote service holds: (bento_repository, bento)
Bentos == {<<Str("mymodel"), Str("v1")>>}
AllRunnerNames == <<"r1", "r2", "r3", "r4">>
RunnerNames == {AllRunnerNames[i] : i \in 1..NumRunners}

\* DeploymentTargetHPAConf objects (attrs)
HPA(lo, hi) == [t |-> "DeploymentTargetHPAConf", min_replicas |-> lo, max_replicas |-> hi]
H1 == HPA(1, 3)
H2 == HPA(2, 5)

VARIABLES
  pc,                 \* per client: the handler's position
  op,                 \* per client: the operation running ("none" when idle)
  args,               \* per client: the arguments of the running operation
  schema,             \* per client: create_deployment_schema (None when unset)
  cluster,            \* per client: the local cluster_name
  idx,                \* per client: position of the loop over schema.targets
  calls,              \* per client: remote calls issued by the running operation
  found,              \* per client: what get_deployment returned to the pre-check
  ret,                \* per client: the value returned (None when none)
  exc,                \* per client: the exception raised (NoException when none)
  runners_config,     \* per client: the caller's runners_config mapping object
  api_server_config,  \* per client: the caller's api_server_config object
  deployments         \* the remote service: the deployment records it stores

vars == <<pc, op, args, schema, cluster, idx, calls, found, ret, exc,
          runners_config, api_server_config, deployments>>

(***************************************************************************)
(* The configuration builder: the part of create before the remote calls.  *)
(***************************************************************************)
\* bentoml_cattr.unstructure_attrs_asdict: the dict of an attrs object's
\* fields, nested attrs objects unstructured too, containers copied
unstructure_attrs_asdict(obj) ==
  IF obj = None THEN None
  ELSE IF obj.t = "DeploymentTargetHPAConf"
    THEN [min_replicas |-> obj.min_replicas, max_replicas |-> obj.max_replicas]
  ELSE [resources |-> obj.resources,
        resource_instance |-> obj.resource_instance,
        hpa_conf |-> IF obj.hpa_conf = None THEN None
                     ELSE [min_replicas |-> obj.hpa_conf.min_replicas,
                           max_replicas |-> obj.hpa_conf.max_replicas],
        runners |-> obj.runners]

\* dct["targets"][0]["config"] before the cascades: api is the
\* api_server_config argument, runners the runners_config argument
TargetConfig(api, runners) ==
  IF api = None
    THEN [resources |-> EmptyDict, runners |-> runners]
    ELSE unstructure_attrs_asdict([api EXCEPT !.runners = runners])

\* HpaCascade without the `is None` tests: the override replaces what is set
HpaCascade_Overwrite(config, hpa_conf) ==
  IF ~Truthy(hpa_conf) THEN config
  ELSE
    LET hpa_conf_dct == unstructure_attrs_asdict(hpa_conf)
        c1 == Put(config, "hpa_conf", hpa_conf_dct)
        rs == c1["runners"]
    IN IF rs = None THEN c1
       ELSE Put(c1, "runners",
                [r \in DOMAIN rs |-> Put(rs[r], "hpa_conf", hpa_conf_dct)])

\* HpaCascade without the loop over the runners
HpaCascade_TargetOnly(config, hpa_conf) ==
  IF ~Truthy(hpa_conf) THEN config
  ELSE IF Get(config, "hpa_conf") = None
    THEN Put(config, "hpa_conf", unstructure_attrs_asdict(hpa_conf))
    ELSE config

\* `if hpa_conf:` and the loop under it
HpaCascade(config, hpa_conf) ==
  IF ~Truthy(hpa_conf) THEN config
  ELSE
    LET hpa_conf_dct == unstructure_attrs_asdict(hpa_conf)
        c1 == IF Get(config, "hpa_conf") = None
                THEN Put(config, "hpa_conf", hpa_conf_dct) ELSE config
        rs == c1["runners"]
    IN IF rs = None THEN c1
       ELSE Put(c1, "runners",
                [r \in DOMAIN rs |->
                   IF Get(rs[r], "hpa_conf") = None
                     THEN Put(rs[r], "hpa_conf", hpa_conf_dct) ELSE rs[r]])

\* ResourceInstanceCascade testing the runner's "hpa_conf" key, as the loop
\* it was copied from does
ResourceInstanceCascade_HpaKey(config, resource_instance) ==
  IF ~Truthy(resource_instance) THEN config
  ELSE
    LET c1 == IF Get(config, "resource_instance") = None
                THEN Put(config, "resource_instance", resource_instance) ELSE config
        rs == c1["runners"]
    IN IF rs = None THEN c1
       ELSE Put(c1, "runners",
                [r \in DOMAIN rs |->
                   IF Get(rs[r], "hpa_conf") = None
                     THEN Put(rs[r], "resource_instance", resource_instance)
                     ELSE rs[r]])

\* `if resource_instance:` and the loop under it
ResourceInstanceCascade(config, resource_instance) ==
  IF ~Truthy(resource_instance) THEN config
  ELSE
    LET c1 == IF Get(config, "resource_instance") = None
                THEN Put(config, "resource_instance", resource_instance) ELSE config
        rs == c1["runners"]
    IN IF rs = None THEN c1
       ELSE Put(c1, "runners",
                [r \in DOMAIN rs |->
                   IF Get(rs[r], "resource_instance") = None
                     THEN Put(rs[r], "resource_instance", resource_instance)
                     ELSE rs[r]])

\* the config of the one target after both cascades
AssembledConfig(api, runners, hpa_conf, resource_instance) ==
  ResourceInstanceCascade(HpaCascade(TargetConfig(api, runners), hpa_conf),
                          resource_instance)

\* dct["targets"]: one target in either branch
Targets(bento_repository, config) ==
  << [type |-> Str("stable"),
      bento_repository |-> bento_repository.name,
      bento |-> bento_repository.version,
      canary_rules |-> None,
      config |-> config] >>

\* dct, structured as a CreateDeploymentSchema
CreateDeploymentSchema(deployment_name, kube_namespace, targets) ==
  [name |-> deployment_name,
   kube_namespace |-> kube_namespace,
   mode |-> Str("function"),
   labels |-> None,
   description |-> None,
   do_not_deploy |-> FALSE,
   targets |-> targets]

(***************************************************************************)
(* What callers pass in.                                                   *)
(***************************************************************************)
\* the dict of a DeploymentTargetHPAConf a runner entry may carry itself
D2 == unstructure_attrs_asdict(H2)

\* the entries a caller writes into its runners_config mapping
RunnerEntries ==
  { EmptyDict,
    [hpa_conf |-> D2],
    [hpa_conf |-> None, resource_instance |-> Str("gpu.small")] }

\* the mappings a caller builds: any subset of the runner names
RunnerMappings ==
  UNION { [rs -> RunnerEntries] : rs \in SUBSET RunnerNames }

\* the DeploymentTargetConfig objects a caller builds (Resource.for_api_server)
ApiServerConfigs ==
  { [t |-> "DeploymentTargetConfig", resources |-> EmptyDict,
     resource_instance |-> ri, hpa_conf |-> h, runners |-> None] :
       ri \in {None, Str("gpu.small")}, h \in {None, H2} }

\* api_server_config.runners once create has attached the caller's mapping:
\* the same object as runners_config, not a copy
RunnersRef == [t |-> "ref", to |-> "runners_config"]
\* the api_server_config argument when the caller passes its object
ApiRef == [t |-> "ref", to |-> "api_server_config"]

\* the target lists of the request files: up to MaxTargets targets
FileTargets ==
  UNION { [1..n -> { Targets(tag, [resources |-> EmptyDict, runners |-> None])[1] :
                       tag \in Tags }] : n \in 0..MaxTargets }

\* what is at a path: no file, a file that is not JSON, a file that cannot
\* be read, or the JSON of a CreateDeploymentSchema
Paths ==
  { [kind |-> "missing"], [kind |-> "invalid_json"], [kind |-> "unreadable"] }
  \cup { [kind |-> "json",
          data |-> CreateDeploymentSchema(Str("svc1"), default_kube_namespace, ts)] :
            ts \in FileTargets }

\* resolve_user_filepath: the absolute path of a user-supplied path
resolve_user_filepath(path, path_context) == path

(***************************************************************************)
(* The remote service (yatai_rest_client).                                 *)
(***************************************************************************)
\* the DeploymentSchema the service stores for a request
DeploymentSchema(cluster_name, s) ==
  [cluster |-> cluster_name, kube_namespace |-> s.kube_namespace,
   name |-> s.name, targets |-> Len(s.targets)]

\* get_bento(bento_repository, bento): the artifact, or None
get_bento(bento_repository, bento) ==
  IF <<bento_repository, bento>> \in Bentos
    THEN [name |-> bento_repository, version |-> bento] ELSE None

\* get_deployment(cluster, namespace, name): the stored record, or None
get_deployment(cluster_name, kube_namespace, name) ==
  LET hit == { d \in deployments : /\ d.cluster = cluster_name
                                    /\ d.kube_namespace = kube_namespace
                                    /\ d.name = name }
  IN IF hit = {} THEN None ELSE CHOOSE d \in hit : TRUE

\* the store after the service has accepted a create_deployment
Stored(rec) ==
  { d \in deployments : ~ ( /\ d.cluster = rec.cluster
                            /\ d.kube_namespace = rec.kube_namespace
                            /\ d.name = rec.name ) } \cup {rec}

(***************************************************************************)
(* The handlers.                                                           *)
(***************************************************************************)
NoException == [type |-> "None", msg |-> ""]
BentoMLException(m) == [type |-> "BentoMLException", msg |-> m]
ValueError(m) == [type |-> "ValueError", msg |-> m]
UnboundLocalError(v) == [type |-> "UnboundLocalError", msg |-> v]

Init ==
  /\ pc = [c \in Clients |-> "idle"]
  /\ op = [c \in Clients |-> "none"]
  /\ args = [c \in Clients |-> None]
  /\ schema = [c \in Clients |-> None]
  /\ cluster = [c \in Clients |-> None]
  /\ idx = [c \in Clients |-> 1]
  /\ calls = [c \in Clients |-> <<>>]
  /\ found = [c \in Clients |-> None]
  /\ ret = [c \in Clients |-> None]
  /\ exc = [c \in Clients |-> NoException]
  /\ runners_config = [c \in Clients |-> None]
  /\ api_server_config = [c \in Clients |-> None]
  /\ deployments = {}

\* the operation of client c ends by raising e
Raise(c, e) ==
  /\ pc' = [pc EXCEPT ![c] = "done"]
  /\ exc' = [exc EXCEPT ![c] = e]
  /\ ret' = ret

\* the operation of client c ends by returning v
Return(c, v) ==
  /\ pc' = [pc EXCEPT ![c] = "done"]
  /\ ret' = [ret EXCEPT ![c] = v]
  /\ exc' = exc

\* `for target in create_deployment_schema.targets`: the position once i - 1
\* targets have been checked
LoopPc(s, i) == IF i <= Len(s.targets) THEN "get_bento" ELSE "get_deployment"

\* the caller (re)fills its runners_config mapping between two calls
SetRunnersConfig(c, m) ==
  /\ pc[c] = "idle"
  /\ runners_config' = [runners_config EXCEPT ![c] = m]
  /\ UNCHANGED <<pc, op, args, schema, cluster, idx, calls, found, ret, exc,
                 api_server_config, deployments>>

\* the caller builds an api_server_config object between two calls
SetApiServerConfig(c, a) ==
  /\ pc[c] = "idle"
  /\ api_server_config' = [api_server_config EXCEPT ![c] = a]
  /\ UNCHANGED <<pc, op, args, schema, cluster, idx, calls, found, ret, exc,
                 runners_config, deployments>>

\* Deployment.create up to its call of _create_deployment, and the first
\* lines of _create_deployment (the client, the cluster default).
\* useRunners / useApi: whether the caller passes its mapping / its object.
create(c, deployment_name, bento_repository, cluster_name, kube_namespace, resource_instance, hpa_conf, useRunners, useApi) ==
  LET runners == IF useRunners THEN runners_config[c] ELSE None
      api == IF useApi THEN api_server_config[c] ELSE None
      config == AssembledConfig(api, runners, hpa_conf, resource_instance)
  IN
  /\ pc[c] = "idle"
  /\ useRunners => runners_config[c] # None
  /\ useApi => api_server_config[c] # None
  /\ op' = [op EXCEPT ![c] = "create"]
  /\ args' = [args EXCEPT ![c] =
       [hpa_conf |-> hpa_conf, resource_instance |-> resource_instance,
        runners_config |-> IF runners = None THEN None ELSE RunnersRef,
        api_server_config |-> IF api = None THEN None ELSE ApiRef]]
  \* api_server_config.runners = runners_config
  /\ api_server_config' =
       IF api = None THEN api_server_config
       ELSE [api_server_config EXCEPT
               ![c].runners = IF runners = None THEN None ELSE RunnersRef]
  \* without api_server_config the target's "runners" is the caller's own
  \* mapping, and the cascades write into its entries; with it, the
  \* cascades write into the unstructured copy
  /\ runners_config' =
       IF api = None /\ runners # None
         THEN [runners_config EXCEPT ![c] = config["runners"]]
         ELSE runners_config
  /\ schema' = [schema EXCEPT ![c] =
       CreateDeploymentSchema(deployment_name, kube_namespace,
                              Targets(bento_repository, config))]
  /\ cluster' = [cluster EXCEPT ![c] =
       IF cluster_name = None THEN default_context_name ELSE cluster_name]
  /\ idx' = [idx EXCEPT ![c] = 1]
  /\ pc' = [pc EXCEPT ![c] = LoopPc(schema'[c], 1)]
  /\ UNCHANGED <<calls, found, ret, exc, deployments>>

\* get_bento_step without the raise: a missing artifact is skipped
get_bento_step_NoRaise(c) ==
  /\ pc[c] = "get_bento"
  /\ calls' = [calls EXCEPT ![c] = Append(@, "get_bento")]
  /\ idx' = [idx EXCEPT ![c] = @ + 1]
  /\ pc' = [pc EXCEPT ![c] = LoopPc(schema[c], idx[c] + 1)]
  /\ UNCHANGED <<op, args, schema, cluster, found, ret, exc, runners_config,
                 api_server_config, deployments>>

\* one pass of the loop of _create_deployment: get_bento for target idx
get_bento_step(c) ==
  LET target == schema[c].targets[idx[c]]
  IN
  /\ pc[c] = "get_bento"
  /\ calls' = [calls EXCEPT ![c] = Append(@, "get_bento")]
  /\ IF get_bento(target.bento_repository, target.bento) = None
       THEN /\ Raise(c, BentoMLException("does not exist"))
            /\ idx' = idx
       ELSE /\ idx' = [idx EXCEPT ![c] = @ + 1]
            /\ pc' = [pc EXCEPT ![c] = LoopPc(schema[c], idx[c] + 1)]
            /\ UNCHANGED <<ret, exc>>
  /\ UNCHANGED <<op, args, schema, cluster, found, runners_config, api_server_config,
                 deployments>>

\* get_deployment_step without the raise: the answer is not looked at
get_deployment_step_NoRaise(c) ==
  LET res == get_deployment(cluster[c], schema[c].kube_namespace, schema[c].name)
  IN
  /\ pc[c] = "get_deployment"
  /\ calls' = [calls EXCEPT ![c] = Append(@, "get_deployment")]
  /\ found' = [found EXCEPT ![c] = res]
  /\ pc' = [pc EXCEPT ![c] = "create_deployment"]
  /\ UNCHANGED <<op, args, schema, cluster, idx, ret, exc, runners_config,
                 api_server_config, deployments>>

\* the pre-check of _create_deployment: get_deployment for the request's name
get_deployment_step(c) ==
  LET res == get_deployment(cluster[c], schema[c].kube_namespace, schema[c].name)
  IN
  /\ pc[c] = "get_deployment"
  /\ calls' = [calls EXCEPT ![c] = Append(@, "get_deployment")]
  /\ found' = [found EXCEPT ![c] = res]
  /\ IF res # None
       THEN Raise(c, BentoMLException("Deployment already exists"))
       ELSE /\ pc' = [pc EXCEPT ![c] = "create_deployment"]
            /\ UNCHANGED <<ret, exc>>
  /\ UNCHANGED <<op, args, schema, cluster, idx, runners_config, api_server_config,
                 deployments>>

\* create_deployment_step without `if res is None: raise`
create_deployment_step_NoNoneTest(c) ==
  /\ pc[c] = "create_deployment"
  /\ calls' = [calls EXCEPT ![c] = Append(@, "create_deployment")]
  /\ \E res \in {None, DeploymentSchema(cluster[c], schema[c])} :
       /\ deployments' = IF res = None THEN deployments ELSE Stored(res)
       /\ Return(c, res)
  /\ UNCHANGED <<op, args, schema, cluster, idx, found, runners_config,
                 api_server_config>>

\* create_deployment_step that looks the name up again and gives up when it
\* is there by now
create_deployment_step_Recheck(c) ==
  /\ pc[c] = "create_deployment"
  /\ IF get_deployment(cluster[c], schema[c].kube_namespace, schema[c].name) # None
       THEN /\ Raise(c, BentoMLException("Deployment already exists"))
            /\ UNCHANGED <<calls, deployments>>
       ELSE /\ calls' = [calls EXCEPT ![c] = Append(@, "create_deployment")]
            /\ deployments' = Stored(DeploymentSchema(cluster[c], schema[c]))
            /\ Return(c, DeploymentSchema(cluster[c], schema[c]))
  /\ UNCHANGED <<op, args, schema, cluster, idx, found, runners_config,
                 api_server_config>>

\* the submission of _create_deployment: the service stores the record and
\* answers with it, or answers None
create_deployment_step(c) ==
  /\ pc[c] = "create_deployment"
  /\ calls' = [calls EXCEPT ![c] = Append(@, "create_deployment")]
  /\ \E res \in {None, DeploymentSchema(cluster[c], schema[c])} :
       /\ deployments' = IF res = None THEN deployments ELSE Stored(res)
       /\ IF res = None
            THEN Raise(c, BentoMLException("Create deployment request failed"))
            ELSE Return(c, res)
  /\ UNCHANGED <<op, args, schema, cluster, idx, found, runners_config,
                 api_server_config>>

\* ReadError without the last `except Exception`: the OSError gets out
ReadError_NoCatchAll(file) ==
  CASE file.kind = "missing" -> ValueError("File not found")
    [] file.kind = "invalid_json" -> ValueError("Error decoding JSON file")
    [] file.kind = "unreadable" -> [type |-> "OSError", msg |-> ""]
    [] OTHER -> NoException

\* open(real_path) and json.load(file): the exception, or NoException
ReadError(file) ==
  CASE file.kind = "missing" -> ValueError("File not found")
    [] file.kind = "invalid_json" -> ValueError("Error decoding JSON file")
    [] file.kind = "unreadable" -> ValueError("An error occurred while reading the file")
    [] OTHER -> NoException

\* Deployment.create_from_file up to its call of _create_deployment, and
\* the first lines of _create_deployment
create_from_file(c, path, path_context, cluster_name) ==
  LET real_path == resolve_user_filepath(path, path_context)
      e == ReadError(real_path)
  IN
  /\ pc[c] = "idle"
  /\ op' = [op EXCEPT ![c] = "create_from_file"]
  /\ args' = [args EXCEPT ![c] = [path |-> path]]
  /\ IF e # NoException
       THEN /\ Raise(c, e)
            /\ UNCHANGED <<schema, cluster>>
       ELSE /\ schema' = [schema EXCEPT ![c] = real_path.data]
            /\ cluster' = [cluster EXCEPT ![c] =
                 IF cluster_name = None THEN default_context_name ELSE cluster_name]
            /\ pc' = [pc EXCEPT ![c] = LoopPc(real_path.data, 1)]
            /\ UNCHANGED <<ret, exc>>
  /\ UNCHANGED <<idx, calls, found, runners_config, api_server_config, deployments>>

\* Deployment.list: get_deployment_list answers with the list or with None
list(c, cluster_name) ==
  LET cn == IF cluster_name = None THEN default_context_name ELSE cluster_name
  IN
  /\ pc[c] = "idle"
  /\ op' = [op EXCEPT ![c] = "list"]
  /\ args' = [args EXCEPT ![c] = [cluster_name |-> cluster_name]]
  /\ cluster' = [cluster EXCEPT ![c] = cn]
  /\ calls' = [calls EXCEPT ![c] = Append(@, "get_deployment_list")]
  /\ \E res \in {None, [items |-> {d \in deployments : d.cluster = cn}]} :
       IF res = None
         THEN Raise(c, BentoMLException("List deployments request failed"))
         ELSE Return(c, res)
  /\ UNCHANGED <<schema, idx, found, runners_config, api_server_config, deployments>>

\* the names bound in the body of Deployment.get when `kubeNamespace is None`
\* is evaluated: the parameters and yatai_rest_client. kubeNamespace is
\* assigned in the body, hence a local, and nothing has bound it yet
GetLocals == {"cls", "deployment_name", "context", "cluster_name",
              "kube_namespace", "yatai_rest_client"}

\* Deployment.get
get(c, deployment_name, cluster_name, kube_namespace) ==
  LET cn == IF cluster_name = None THEN default_context_name ELSE cluster_name
      res == get_deployment(cn, kube_namespace, deployment_name)
  IN
  /\ pc[c] = "idle"
  /\ op' = [op EXCEPT ![c] = "get"]
  /\ args' = [args EXCEPT ![c] =
       [deployment_name |-> deployment_name, cluster_name |-> cluster_name,
        kube_namespace |-> kube_namespace]]
  /\ cluster' = [cluster EXCEPT ![c] = cn]
  /\ IF "kubeNamespace" \notin GetLocals
       THEN /\ Raise(c, UnboundLocalError("kubeNamespace"))
            /\ UNCHANGED <<calls, found>>
       ELSE /\ calls' = [calls EXCEPT ![c] = Append(@, "get_deployment")]
            /\ found' = [found EXCEPT ![c] = res]
            /\ IF res = None
                 THEN Raise(c, BentoMLException("Get deployment request failed"))
                 ELSE Return(c, res)
  /\ UNCHANGED <<schema, idx, runners_config, api_server_config, deployments>>

\* the caller takes the outcome; the handler's locals are gone
finish(c) ==
  /\ pc[c] = "done"
  /\ pc' = [pc EXCEPT ![c] = "idle"]
  /\ op' = [op EXCEPT ![c] = "none"]
  /\ args' = [args EXCEPT ![c] = None]
  /\ schema' = [schema EXCEPT ![c] = None]
  /\ cluster' = [cluster EXCEPT ![c] = None]
  /\ idx' = [idx EXCEPT ![c] = 1]
  /\ calls' = [calls EXCEPT ![c] = <<>>]
  /\ found' = [found EXCEPT ![c] = None]
  /\ ret' = [ret EXCEPT ![c] = None]
  /\ exc' = [exc EXCEPT ![c] = NoException]
  /\ UNCHANGED <<runners_config, api_server_config, deployments>>

(***************************************************************************)
(* Spec: two callers run the four operations concurrently.                 *)
(***************************************************************************)
Create(c) ==
  \E n \in Names, tag \in Tags, cn \in {None, default_context_name} :
    create(c, n, tag, cn, default_kube_namespace, None, None, FALSE, FALSE)

CreateFromFile(c) ==
  \E path \in Paths, cn \in {None, default_context_name} :
    create_from_file(c, path, None, cn)

List(c) == \E cn \in {None, default_context_name} : list(c, cn)

GetDeployment(c) ==
  \E n \in Names, cn \in {None, default_context_name},
     ns \in {None, default_kube_namespace} : get(c, n, cn, ns)

Next ==
  \E c \in Clients :
    \/ Create(c)
    \/ CreateFromFile(c)
    \/ List(c)
    \/ GetDeployment(c)
    \/ get_bento_step(c)
    \/ get_deployment_step(c)
    \/ create_deployment_step(c)
    \/ finish(c)

Spec == Init /\ [][Next]_vars

(***************************************************************************)
(* SpecBuilder: one caller keeps a runners_config mapping and an           *)
(* api_server_config object and calls create again and again with          *)
(* top-level overrides.                                                    *)
(***************************************************************************)
Builder == CHOOSE c \in Clients : \A d \in Clients : c <= d

BuilderCreate(c) ==
  \E ri \in {None, Str(""), Str("cpu.large")}, h \in {None, H1},
     useRunners \in BOOLEAN, useApi \in BOOLEAN :
    create(c, Str("svc1"), [name |-> Str("mymodel"), version |-> Str("v1")],
           default_context_name, default_kube_namespace, ri, h, useRunners, useApi)

NextBuilder ==
  \/ \E m \in RunnerMappings : SetRunnersConfig(Builder, m)
  \/ \E a \in ApiServerConfigs : SetApiServerConfig(Builder, a)
  \/ BuilderCreate(Builder)
  \/ get_bento_step(Builder)
  \/ get_deployment_step(Builder)
  \/ create_deployment_step(Builder)
  \/ finish(Builder)

SpecBuilder == Init /\ [][NextBuilder]_vars

(***************************************************************************)
(* The claims.                                                             *)
(***************************************************************************)
Creating(c) == op[c] \in {"create", "create_from_file"}

\* how many calls of kind k the running operation of c has issued
NumCalls(c, k) == Cardinality({i \in DOMAIN calls[c] : calls[c][i] = k})

\* get_bento has answered None for one of the targets asked about so far
BentoMissing(c) ==
  \E i \in 1..NumCalls(c, "get_bento") :
    get_bento(schema[c].targets[i].bento_repository, schema[c].targets[i].bento) = None

\* C1: a create or create_from_file for which get_bento answered None for a
\* target has failed with the "does not exist" exception and has issued no
\* create_deployment call.
C1_MissingArtifactFails ==
  \A c \in Clients :
    (Creating(c) /\ schema[c] # None /\ BentoMissing(c)) =>
      /\ pc[c] = "done"
      /\ exc[c] = BentoMLException("does not exist")
      /\ ret[c] = None
      /\ NumCalls(c, "create_deployment") = 0

\* a request file with two targets, the second one missing: the first
\* get_bento succeeds, the second fails the operation
C1_Witness ==
  \E c \in Clients :
    /\ op[c] = "create_from_file" /\ pc[c] = "done"
    /\ calls[c] = <<"get_bento", "get_bento">>
    /\ exc[c] = BentoMLException("does not exist")

\* C2: a create or create_from_file whose pre-check get_deployment answered
\* with a record has failed with the "already exists" exception and has
\* issued no create_deployment call.
C2_DuplicateFails ==
  \A c \in Clients :
    (Creating(c) /\ NumCalls(c, "get_deployment") > 0 /\ found[c] # None) =>
      /\ pc[c] = "done"
      /\ exc[c] = BentoMLException("Deployment already exists")
      /\ ret[c] = None
      /\ NumCalls(c, "create_deployment") = 0

\* a create whose artifact exists and whose name the service already holds
C2_Witness ==
  \E c \in Clients :
    /\ op[c] = "create" /\ pc[c] = "done"
    /\ calls[c] = <<"get_bento", "get_deployment">>
    /\ found[c] \in deployments
    /\ exc[c] = BentoMLException("Deployment already exists")

\* C6: a get that has ended has issued the get_deployment query, with the
\* default namespace when the argument was None, and has returned its
\* answer or failed with the "request failed" exception on None.
C6_GetQueriesRemote ==
  \A c \in Clients :
    (op[c] = "get" /\ pc[c] = "done") =>
      LET ns == IF args[c].kube_namespace = None
                  THEN default_kube_namespace ELSE args[c].kube_namespace
          res == get_deployment(cluster[c], ns, args[c].deployment_name)
      IN /\ calls[c] = <<"get_deployment">>
         /\ \/ res # None /\ ret[c] = res /\ exc[c] = NoException
            \/ res = None /\ ret[c] = None
               /\ exc[c] = BentoMLException("Get deployment request failed")

C8_Case(c) ==
  /\ op[c] = "create" /\ pc[c] = "done"
  /\ ~BentoMissing(c)
  /\ NumCalls(c, "get_deployment") = 1 /\ found[c] = None

\* C8 as stated: in that case create has issued one submission of a
\* one-target request, has succeeded and has returned the service's record.
C8_CreateSucceeds ==
  \A c \in Clients :
    C8_Case(c) =>
      /\ NumCalls(c, "create_deployment") = 1
      /\ Len(schema[c].targets) = 1
      /\ exc[c] = NoException
      /\ ret[c] = DeploymentSchema(cluster[c], schema[c])

\* C8 as amended: in that case create has issued one submission of a
\* one-target request; it has returned the service's record, or the service
\* answered None and it has failed with the "request failed" exception.
C8_CreateSubmitsOnce ==
  \A c \in Clients :
    C8_Case(c) =>
      /\ NumCalls(c, "create_deployment") = 1
      /\ Len(schema[c].targets) = 1
      /\ \/ /\ exc[c] = NoException
            /\ ret[c] = DeploymentSchema(cluster[c], schema[c])
            /\ get_deployment(cluster[c], schema[c].kube_namespace,
                              schema[c].name) # None
         \/ /\ exc[c] = BentoMLException("Create deployment request failed")
            /\ ret[c] = None

\* a create that went through and returned the stored record
C8_Witness ==
  \E c \in Clients :
    /\ C8_Case(c)
    /\ exc[c] = NoException
    /\ ret[c] \in deployments

\* C9: nothing stands between a passed pre-check and the submission: the
\* next step of a client that has passed it is its create_deployment call,
\* whatever the service holds by then.
C9_NoRecheckBeforeSubmit ==
  [][\A c \in Clients :
       (pc[c] = "create_deployment" /\ pc'[c] # "create_deployment") =>
         calls'[c] = Append(calls[c], "create_deployment")]_vars

\* the race: both callers ran create for the same (cluster, namespace,
\* name), both passed the pre-check and both submissions were accepted
C9_Witness ==
  \E c1, c2 \in Clients :
    /\ c1 # c2
    /\ op[c1] = "create" /\ op[c2] = "create"
    /\ pc[c1] = "done" /\ pc[c2] = "done"
    /\ cluster[c1] = cluster[c2]
    /\ schema[c1].kube_namespace = schema[c2].kube_namespace
    /\ schema[c1].name = schema[c2].name
    /\ NumCalls(c1, "create_deployment") = 1
    /\ NumCalls(c2, "create_deployment") = 1
    /\ exc[c1] = NoException /\ exc[c2] = NoException

(***************************************************************************)
(* The claims on the builder: a create step relates the caller's objects   *)
(* before the call to the request assembled by it.                         *)
(***************************************************************************)
\* the step of c is a call of create
CreateCall(c) == pc[c] = "idle" /\ op'[c] = "create"

\* the runners_config / api_server_config arguments as they are at the call
PriorRunners(c) ==
  IF args'[c].runners_config = None THEN None ELSE runners_config[c]
PriorApi(c) ==
  IF args'[c].api_server_config = None THEN None ELSE api_server_config[c]

\* what the target's config carries under key k before the cascades
PriorTarget(c, k) ==
  IF PriorApi(c) = None THEN None
  ELSE IF k = "hpa_conf" THEN unstructure_attrs_asdict(PriorApi(c).hpa_conf)
  ELSE PriorApi(c).resource_instance

\* the config of the target of the request the step assembles
Assembled(c) == schema'[c].targets[1].config

\* the runners of the assembled config are those of the mapping passed
SameRunners(c) ==
  IF PriorRunners(c) = None THEN Assembled(c)["runners"] = None
  ELSE /\ Assembled(c)["runners"] # None
       /\ DOMAIN Assembled(c)["runners"] = DOMAIN PriorRunners(c)

\* C3: with a top-level hpa_conf, the target's config and every runner
\* entry that carried an hpa_conf of its own carry that same value in the
\* assembled request.
C3_HpaNotOverwritten ==
  [][\A c \in Clients :
       (CreateCall(c) /\ args'[c].hpa_conf # None) =>
         /\ SameRunners(c)
         /\ PriorTarget(c, "hpa_conf") # None =>
              Get(Assembled(c), "hpa_conf") = PriorTarget(c, "hpa_conf")
         /\ PriorRunners(c) # None =>
              \A r \in DOMAIN PriorRunners(c) :
                Get(PriorRunners(c)[r], "hpa_conf") # None =>
                  Get(Assembled(c)["runners"][r], "hpa_conf")
                    = Get(PriorRunners(c)[r], "hpa_conf")]_vars

\* create(hpa_conf = H1) with an api_server_config carrying H2 and a mapping
\* in which some runner carries H2 and some runner nothing: the pre-set
\* values are those of the request, the empty runner got H1
C3_Witness ==
  \E c \in Clients :
    /\ op[c] = "create" /\ args[c].hpa_conf = H1
    /\ args[c].api_server_config # None /\ args[c].runners_config # None
    /\ api_server_config[c].hpa_conf = H2
    /\ Get(schema[c].targets[1].config, "hpa_conf") = D2
    /\ \E r1, r2 \in DOMAIN runners_config[c] :
         /\ runners_config[c][r1] = [hpa_conf |-> D2]
         /\ schema[c].targets[1].config["runners"][r1] = [hpa_conf |-> D2]
         /\ runners_config[c][r2] = EmptyDict
         /\ schema[c].targets[1].config["runners"][r2]
              = [hpa_conf |-> unstructure_attrs_asdict(H1)]

\* C4: with a top-level hpa_conf and no hpa_conf set on the target's config
\* or on any runner entry, the target's config and every runner entry of
\* the assembled request carry the dict of the supplied hpa_conf.
C4_HpaFilledIn ==
  [][\A c \in Clients :
       ( /\ CreateCall(c) /\ args'[c].hpa_conf # None
         /\ PriorTarget(c, "hpa_conf") = None
         /\ PriorRunners(c) # None =>
              \A r \in DOMAIN PriorRunners(c) :
                Get(PriorRunners(c)[r], "hpa_conf") = None ) =>
         /\ SameRunners(c)
         /\ Get(Assembled(c), "hpa_conf")
              = unstructure_attrs_asdict(args'[c].hpa_conf)
         /\ PriorRunners(c) # None =>
              \A r \in DOMAIN PriorRunners(c) :
                Get(Assembled(c)["runners"][r], "hpa_conf")
                  = unstructure_attrs_asdict(args'[c].hpa_conf)]_vars

\* create(hpa_conf = H1) with an api_server_config without hpa_conf and a
\* mapping of every runner name to an empty entry: all of them got H1
C4_Witness ==
  \E c \in Clients :
    /\ op[c] = "create" /\ args[c].hpa_conf = H1
    /\ args[c].api_server_config # None /\ args[c].runners_config # None
    /\ api_server_config[c].hpa_conf = None
    /\ runners_config[c] = [r \in RunnerNames |-> EmptyDict]
    /\ Get(schema[c].targets[1].config, "hpa_conf") = unstructure_attrs_asdict(H1)
    /\ \A r \in RunnerNames :
         Get(schema[c].targets[1].config["runners"][r], "hpa_conf")
           = unstructure_attrs_asdict(H1)

\* the override of key k as the cascade writes it
Override(c, k) ==
  IF k = "hpa_conf" THEN unstructure_attrs_asdict(args'[c].hpa_conf)
  ELSE args'[c].resource_instance

\* the law of one location and one key as C5 states it: the value set
\* before stays, an unset one becomes the override when one is supplied
LawAsStated(prior, override) ==
  IF prior # None THEN prior ELSE override

\* the law as the code has it: an override that is false in `if` ("" for
\* resource_instance) counts as not supplied
LawAsCoded(prior, override) ==
  IF prior # None THEN prior ELSE IF Truthy(override) THEN override ELSE None

C10_MappingUntouched ==
  [][\A c \in Clients : CreateCall(c) => runners_config'[c] = runners_config[c]]_vars

=============================================================================
